---- MODULE Spec2Model ----
(***************************************************************************)
(* Cardography, script.js: the module state, the startup sequence and the  *)
(* interaction handlers, with the page (the DOM the handlers read and      *)
(* write), the timers of applyFilters and of the throttled handlers, and   *)
(* the browser's list of animation-frame callbacks.                        *)
(*                                                                         *)
(* JavaScript runs one handler to completion at a time.  The callbacks     *)
(* passed to requestAnimationFrame are run by the browser in the order     *)
(* they were requested; all callbacks pending when a frame begins run in   *)
(* that frame, with no event handler or timer between them (frameLeft      *)
(* counts the callbacks the current frame still has to run).               *)
(***************************************************************************)
EXTENDS Integers, Sequences, FiniteSets, TLC

VARIABLES
    source,              \* what fetch('./theme-library.json') yields
    page,                \* ids of the static elements the page holds
    pc,                  \* position of the DOMContentLoaded handler
    themeData, themeCache, sectionStates,
    allCardsFlipped, allSectionsExpanded, activeThemeCard, activeFilters,
    eventListeners,      \* the tracking list
    attached,            \* listeners attached to the elements of the page
    throttledScroll, throttledResize,
    timeoutId,           \* applyFilters.timeoutId has been assigned
    timerPending,        \* the applyFilters timer is set and has not fired
    staleTimers,         \* timers of applyFilters still set whose id is lost
    throttle,            \* the closures of throttle: lastExecTime, timeoutId
    win,                 \* window.scrollY and window.innerWidth, as tested
    backToTop,           \* isVisible and the class 'visible' of the button
    drawer,              \* the filter drawer, its button and its label
    rafQueue, frameLeft,
    domSections, contentExpanded, arrowTransform,
    cards, flipped, activeMark, display,
    pills, pillActive, clearBtnActive, expandToggleActive, flipToggleActive,
    counterText,
    last,                \* the handler that ran last, with the state it found
    cap                  \* bound on the pending frame callbacks

envVars == <<source, page, cap>>
dataVars == <<themeData, themeCache>>
listenerVars == <<eventListeners, attached, throttledScroll, throttledResize>>
sectionVars == <<sectionStates, allSectionsExpanded>>
sectionDom == <<domSections, contentExpanded, arrowTransform, expandToggleActive>>
cardVars == <<allCardsFlipped, activeThemeCard>>
cardDom == <<cards, flipped, activeMark, flipToggleActive>>
filterVars == <<activeFilters, timeoutId, timerPending, staleTimers>>
viewportVars == <<throttle, win, backToTop, drawer>>
filterDom == <<display, pills, pillActive, clearBtnActive, counterText>>

vars == <<envVars, pc, dataVars, listenerVars, sectionVars, sectionDom, cardVars,
          cardDom, filterVars, filterDom, viewportVars, rafQueue, frameLeft, last>>

----------------------------------------------------------------------------
(* Bounds *)

\* Frame callbacks that may be pending at once in the runs of one concern.
MaxPending == 4
\* The same, in the runs that mix all the handlers.
MaxPendingMixed == 3

----------------------------------------------------------------------------
(* Values *)

Null == [null |-> TRUE]
NoCard == "null"
Absent == ""                    \* an optional field the document leaves out
EmptyMap == [x \in {} |-> TRUE]
NoLast == [op |-> "none"]
FetchError == [error |-> "fetch"]

Theme(id, colorFamily, designSystem) ==
    [id |-> id, colorFamily |-> colorFamily, designSystem |-> designSystem]

\* The dataset of the scenario: core (warm, cool) and extra (warm).
ScenarioData ==
    [categories |-> <<
        [id |-> "core", themes |-> <<Theme("t1", "warm", "flat"),
                                     Theme("t2", "cool", "flat")>>],
        [id |-> "extra", themes |-> <<Theme("t3", "warm", Absent)>>] >>]

\* Two design systems, one colour family, no section named core.
DesignData ==
    [categories |-> <<
        [id |-> "retro", themes |-> <<Theme("t1", "cool", "flat")>>],
        [id |-> "modern", themes |-> <<Theme("t2", "cool", "material")>>] >>]

\* One section, two cards, one of them without a colour family.
PairData ==
    [categories |-> <<
        [id |-> "core", themes |-> <<Theme("t1", "warm", Absent),
                                     Theme("t2", Absent, Absent)>>] >>]

\* One section, two cards.
SmallData ==
    [categories |-> <<
        [id |-> "core", themes |-> <<Theme("t1", "warm", Absent),
                                     Theme("t2", "cool", Absent)>>] >>]

\* One section, expanded at load, three cards.
GalleryData ==
    [categories |-> <<
        [id |-> "core", themes |-> <<Theme("t1", "warm", "flat"),
                                     Theme("t2", "cool", "material"),
                                     Theme("t3", "warm", Absent)>>] >>]

FullPage == {"themeSections", "expandAllToggle", "flipAllToggle", "colorPills",
             "designPills", "clearFilters", "totalCardCount", "filterToggle",
             "filterContainer", "filterToggleText", "backToTop"}

----------------------------------------------------------------------------
(* Helpers over the dataset and the maps *)

Range(s) == {s[i] : i \in DOMAIN s}

CategoryIds(data) == {c.id : c \in Range(data.categories)}

AllThemes(data) == UNION {Range(c.themes) : c \in Range(data.categories)}

\* Map.get in a boolean context: undefined is falsy.
MapGet(map, key) == IF key \in DOMAIN map THEN map[key] ELSE FALSE

MapSet(map, key, value) ==
    [k \in DOMAIN map \cup {key} |-> IF k = key THEN value ELSE map[k]]

Listener(element, event, handler) ==
    [element |-> element, event |-> event, handler |-> handler]

IsAttached(element, handler) ==
    \E l \in attached : l.element = element /\ l.handler = handler

----------------------------------------------------------------------------
(* Pure parts of the filter code *)

\* toggleFilter: the set the facet selects.
FilterSetOf(filters, type) ==
    IF type = "color" THEN filters.colors ELSE filters.designs

\* A toggleFilter that adds and never deletes.
ToggleFilterSetsAddOnly(filters, type, value) ==
    IF type = "color"
    THEN [filters EXCEPT !.colors = filters.colors \cup {value}]
    ELSE [filters EXCEPT !.designs = filters.designs \cup {value}]

\* toggleFilter: has / delete / add on the selected set.
ToggleFilterSets(filters, type, value) ==
    LET filterSet == FilterSetOf(filters, type)
        toggled == IF value \in filterSet THEN filterSet \ {value}
                                         ELSE filterSet \cup {value}
    IN  IF type = "color" THEN [filters EXCEPT !.colors = toggled]
                          ELSE [filters EXCEPT !.designs = toggled]

\* An isFiltered that looks at the colour set alone.
HasActiveColors(filters) == Cardinality(filters.colors) > 0

\* updateClearButton and updateCardCount: a filter value is active.
HasActiveFilters(filters) ==
    Cardinality(filters.colors) > 0 \/ Cardinality(filters.designs) > 0

\* An applyFilters without the size test on the design set.
ShouldShowNoSizeTest(theme, filters) ==
    LET s0 == TRUE
        s1 == IF Cardinality(filters.colors) > 0
              THEN s0 /\ theme.colorFamily \in filters.colors
              ELSE s0
    IN  s1 /\ theme.designSystem \in filters.designs

\* applyFilters: shouldShow of one theme, statement by statement.
ShouldShow(theme, filters) ==
    LET s0 == TRUE
        s1 == IF Cardinality(filters.colors) > 0
              THEN s0 /\ theme.colorFamily \in filters.colors
              ELSE s0
        s2 == IF Cardinality(filters.designs) > 0
              THEN s1 /\ theme.designSystem \in filters.designs
              ELSE s1
    IN  s2

\* findThemeById: themeCache.get(id) || null.
FindThemeById(cache, id) == IF id \in DOMAIN cache THEN cache[id] ELSE Null

\* An applyFilters that passes over the cards it finds hidden.
VisibilityUpdatesOfShownCards(allCards, cache, filters) ==
    [card \in {c \in allCards :
                 FindThemeById(cache, c) # Null /\ display[c] # "none"} |->
        ShouldShow(FindThemeById(cache, card), filters)]

\* applyFilters: the batch; a card whose theme the cache lacks is skipped.
\* A card is named by the theme id in its front face's data-theme.
VisibilityUpdates(allCards, cache, filters) ==
    [card \in {c \in allCards : FindThemeById(cache, c) # Null} |->
        ShouldShow(FindThemeById(cache, card), filters)]

\* applyFilters: the frame callback it requests.  origin records the caller
\* and what it found, for the statements about clearAllFilters.
VisibilityCallback(allCards, cache, filters, origin) ==
    [kind |-> "visibility",
     visibilityUpdates |-> VisibilityUpdates(allCards, cache, filters),
     origin |-> origin]

\* updateCardCount: categories.reduce((sum, c) => sum + c.themes.length, 0).
RECURSIVE ReduceThemeCount(_, _, _)
ReduceThemeCount(categories, i, sum) ==
    IF i > Len(categories) THEN sum
    ELSE ReduceThemeCount(categories, i + 1, sum + Len(categories[i].themes))

\* A total that counts the categories.
TotalCategories(data) == Len(data.categories)

TotalCards(data) == ReduceThemeCount(data.categories, 1, 0)

\* The section a card is rendered in.
SectionOf(data, card) ==
    CHOOSE s \in CategoryIds(data) :
        \E c \in Range(data.categories) :
            c.id = s /\ card \in {t.id : t \in Range(c.themes)}

\* A count that leaves out the cards of collapsed sections.
VisibleCardsOfExpandedSections(allCards, disp) ==
    Cardinality({c \in allCards :
        disp[c] # "none" /\ contentExpanded[SectionOf(themeData, c)]})

\* updateCardCount: '.flip-card:not([style*="display: none"])'.
VisibleCards(allCards, disp) ==
    Cardinality({c \in allCards : disp[c] # "none"})

\* updateCardCount: the text it leaves in the counter; <<n>> is the bare
\* total, <<v, n>> is "v / n", <<>> is a counter never written.
CountText(old, data, allCards, disp, filters, elements) ==
    IF data = Null THEN old
    ELSE IF "totalCardCount" \notin elements THEN old
    ELSE IF HasActiveFilters(filters)
         THEN <<VisibleCards(allCards, disp), TotalCards(data)>>
         ELSE <<TotalCards(data)>>

\* initializeFilters: the values a facet offers (falsy values are left out).
FacetValues(data, type) ==
    {IF type = "color" THEN t.colorFamily ELSE t.designSystem :
        t \in AllThemes(data)} \ {Absent}

\* An index of the themes of the first category alone.
BuildCacheOfFirstCategory(data) ==
    [id \in {t.id : t \in Range(data.categories[1].themes)} |->
        CHOOSE t \in AllThemes(data) : t.id = id]

\* initializeFilters: themeCache.set(theme.id, theme) over every theme.
BuildCache(data) ==
    [id \in {t.id : t \in AllThemes(data)} |->
        CHOOSE t \in AllThemes(data) : t.id = id]

----------------------------------------------------------------------------
(* Startup: the DOMContentLoaded handler.  After the await of loadThemeData *)
(* the calls run back to back; nothing else runs until pc is done, or       *)
(* crashed when an exception left the handler.                              *)

\* addTrackedEventListener, for the listeners one call registers.
Tracked(list, listeners) == list \o listeners

\* loadThemeData: on success the data and the section states; a failed
\* fetch or parse is caught and logged, and leaves both as they were.
LoadThemeData ==
    /\ pc = "load"
    /\ pc' = "render"
    /\ IF source = FetchError
       THEN UNCHANGED <<themeData, sectionStates>>
       ELSE /\ themeData' = source
            /\ sectionStates' = [id \in CategoryIds(source) |-> id = "core"]
    /\ UNCHANGED <<envVars, viewportVars,
                   themeCache, listenerVars, allSectionsExpanded,
                   sectionDom, cardVars, cardDom, filterVars, filterDom,
                   rafQueue, frameLeft, last>>

\* renderThemeSections: sections and cards, and a frame callback for the
\* arrows (fixCardHeights changes heights only).
RenderThemeSections ==
    /\ pc = "render"
    /\ pc' = "toggles"
    /\ IF themeData = Null \/ "themeSections" \notin page
       THEN UNCHANGED <<domSections, contentExpanded, arrowTransform, cards,
                        flipped, activeMark, display, rafQueue>>
       ELSE /\ domSections' = CategoryIds(themeData)
            /\ contentExpanded' = [s \in CategoryIds(themeData) |->
                                      MapGet(sectionStates, s)]
            /\ arrowTransform' = [s \in CategoryIds(themeData) |-> ""]
            /\ cards' = {t.id : t \in AllThemes(themeData)}
            /\ flipped' = [c \in {t.id : t \in AllThemes(themeData)} |-> FALSE]
            /\ activeMark' = [c \in {t.id : t \in AllThemes(themeData)} |-> FALSE]
            /\ display' = [c \in {t.id : t \in AllThemes(themeData)} |-> ""]
            /\ rafQueue' = Append(rafQueue, [kind |-> "arrows"])
    /\ UNCHANGED <<envVars, viewportVars, dataVars, listenerVars, sectionVars,
                   expandToggleActive, cardVars, flipToggleActive, filterVars,
                   pills, pillActive, clearBtnActive, counterText, frameLeft,
                   last>>

\* initializeToggles.
InitializeToggles ==
    /\ pc = "toggles"
    /\ pc' = "filters"
    /\ IF "expandAllToggle" \notin page \/ "flipAllToggle" \notin page
       THEN UNCHANGED <<eventListeners, attached>>
       ELSE LET new == <<Listener("expandAllToggle", "click", "handleExpandToggle"),
                         Listener("flipAllToggle", "click", "handleFlipToggle")>>
            IN  /\ eventListeners' = Tracked(eventListeners, new)
                /\ attached' = attached \cup Range(new)
    /\ UNCHANGED <<envVars, viewportVars,
                   dataVars, throttledScroll, throttledResize,
                   sectionVars, sectionDom, cardVars, cardDom, filterVars,
                   filterDom, rafQueue, frameLeft, last>>

\* createFilterPills: the listeners it registers (none without container).
PillListeners(containerId) ==
    IF containerId \in page
    THEN <<Listener(containerId, "click", "toggleFilter")>>
    ELSE <<>>

\* createFilterPills: the pills it puts into the container.
CreatedPills(containerId, items, type) ==
    IF containerId \in page THEN {<<type, item>> : item \in items} ELSE {}

\* initializeFilters.  themeData.categories of a null themeData is a
\* TypeError: nothing catches it, the handler ends there.
InitializeFilters ==
    /\ pc = "filters"
    /\ IF themeData = Null
       THEN /\ pc' = "crashed"
            /\ UNCHANGED <<themeCache, eventListeners, attached, pills,
                           pillActive, rafQueue>>
       ELSE LET newPills ==
                    CreatedPills("colorPills", FacetValues(themeData, "color"), "color")
                    \cup CreatedPills("designPills", FacetValues(themeData, "design"), "design")
                new == PillListeners("colorPills") \o PillListeners("designPills")
                       \o (IF "clearFilters" \in page
                           THEN <<Listener("clearFilters", "click", "clearAllFilters")>>
                           ELSE <<>>)
            IN  /\ pc' = "drawer"
                /\ themeCache' = BuildCache(themeData)
                /\ pills' = newPills
                /\ pillActive' = [p \in newPills |-> FALSE]
                /\ eventListeners' = Tracked(eventListeners, new)
                /\ attached' = attached \cup Range(new)
                /\ rafQueue' =
                     IF "clearFilters" \in page
                     THEN Append(rafQueue,
                            [kind |-> "clearButton",
                             hasActiveFilters |-> HasActiveFilters(activeFilters)])
                     ELSE rafQueue
    /\ UNCHANGED <<envVars, viewportVars,
                   themeData, throttledScroll, throttledResize,
                   sectionVars, sectionDom, cardVars, cardDom, filterVars,
                   display, clearBtnActive, counterText, frameLeft, last>>

\* initializeMobileDrawer: setInitialState and the two listeners.
InitializeMobileDrawer ==
    /\ pc = "drawer"
    /\ pc' = "backToTop"
    /\ IF {"filterToggle", "filterContainer", "filterToggleText"} \subseteq page
       THEN LET new == <<Listener("filterToggle", "click", "handleToggle"),
                         Listener("window", "resize", "throttledResize")>>
            IN  /\ eventListeners' = Tracked(eventListeners, new)
                /\ attached' = attached \cup Range(new)
                /\ throttledResize' = TRUE
                /\ drawer' = [drawer EXCEPT !.collapsed = ~win.wide]
       ELSE UNCHANGED <<eventListeners, attached, throttledResize, drawer>>
    /\ UNCHANGED <<envVars, throttle, win, backToTop,
                   dataVars, throttledScroll, sectionVars, sectionDom,
                   cardVars, cardDom, filterVars, filterDom, rafQueue,
                   frameLeft, last>>

\* initializeBackToTop.
InitializeBackToTop ==
    /\ pc = "backToTop"
    /\ pc' = "count"
    /\ IF "backToTop" \in page
       THEN LET new == <<Listener("window", "scroll", "throttledScroll"),
                         Listener("backToTop", "click", "scrollTo")>>
            IN  /\ eventListeners' = Tracked(eventListeners, new)
                /\ attached' = attached \cup Range(new)
                /\ throttledScroll' = TRUE
       ELSE UNCHANGED <<eventListeners, attached, throttledScroll>>
    /\ UNCHANGED <<envVars, viewportVars,
                   dataVars, throttledResize, sectionVars, sectionDom,
                   cardVars, cardDom, filterVars, filterDom, rafQueue,
                   frameLeft, last>>

\* The updateCardCount call of the startup sequence.
StartupCardCount ==
    /\ pc = "count"
    /\ pc' = "unload"
    /\ counterText' = CountText(counterText, themeData, cards, display,
                                activeFilters, page)
    /\ UNCHANGED <<envVars, viewportVars,
                   dataVars, listenerVars, sectionVars, sectionDom,
                   cardVars, cardDom, filterVars, display, pills, pillActive,
                   clearBtnActive, rafQueue, frameLeft, last>>

\* window.addEventListener('beforeunload', cleanup): not a tracked listener.
RegisterCleanup ==
    /\ pc = "unload"
    /\ pc' = "done"
    /\ attached' = attached \cup {Listener("window", "beforeunload", "cleanup")}
    /\ UNCHANGED <<envVars, viewportVars,
                   dataVars, eventListeners, throttledScroll,
                   throttledResize, sectionVars, sectionDom, cardVars, cardDom,
                   filterVars, filterDom, rafQueue, frameLeft, last>>

\* No handler is running: the startup sequence has ended and no frame is
\* in progress.
Idle == pc \in {"done", "crashed"} /\ frameLeft = 0

----------------------------------------------------------------------------
(* Handlers *)

\* A handler may request k more frame callbacks.
Room(k) == Len(rafQueue) + k <= cap

\* toggleSection; the onclick of a rendered section header calls it.  It
\* returns at once when the content or the arrow of the section is missing.
ToggleSection(sectionId) ==
    /\ Idle
    /\ Room(1)
    /\ IF sectionId \notin domSections
       THEN /\ UNCHANGED <<sectionStates, rafQueue>>
            /\ last' = [op |-> "toggleSection", returned |-> TRUE]
       ELSE LET isExpanded == MapGet(sectionStates, sectionId)
            IN  /\ sectionStates' = MapSet(sectionStates, sectionId, ~isExpanded)
                /\ rafQueue' = Append(rafQueue,
                       [kind |-> "section", section |-> sectionId,
                        isExpanded |-> isExpanded])
                /\ last' = NoLast
    /\ UNCHANGED <<envVars, viewportVars,
                   pc, dataVars, listenerVars, allSectionsExpanded,
                   sectionDom, cardVars, cardDom, filterVars, filterDom,
                   frameLeft>>

\* setActiveThemeCard: the mark it removes at once.
UnmarkPrevious(marks, previous, card) ==
    IF previous # NoCard /\ previous # card
    THEN [marks EXCEPT ![previous] = FALSE]
    ELSE marks

\* flipCard, from the onclick of a card: setActiveThemeCard and the two
\* frame callbacks.  A card with display none receives no click.
FlipCard(card) ==
    /\ Idle
    /\ card \in cards
    /\ display[card] # "none"
    /\ Room(2)
    /\ activeMark' = UnmarkPrevious(activeMark, activeThemeCard, card)
    /\ activeThemeCard' = card
    /\ rafQueue' = rafQueue \o <<[kind |-> "active", card |-> card],
                                 [kind |-> "flip", card |-> card]>>
    /\ last' = NoLast
    /\ UNCHANGED <<envVars, viewportVars,
                   pc, dataVars, listenerVars, sectionVars, sectionDom,
                   allCardsFlipped, cards, flipped, flipToggleActive, filterVars,
                   filterDom, frameLeft>>

\* A handleExpandToggle that updates the sections it finds no elements for.
ExpandTargetsUnchecked(states, rendered) == DOMAIN states

\* handleExpandToggle: the sections it updates (content and arrow present).
ExpandTargets(states, rendered) == {s \in DOMAIN states : s \in rendered}

\* A handleExpandToggle that inverts each section by itself.
ExpandAllStatesEachInverted(states, rendered, expanded) ==
    [s \in DOMAIN states |->
        IF s \in ExpandTargets(states, rendered) THEN ~states[s] ELSE states[s]]

\* A handleExpandToggle that only ever expands.
ExpandAllStatesOnlyExpands(states, rendered, expanded) ==
    [s \in DOMAIN states |->
        IF s \in ExpandTargets(states, rendered) THEN TRUE ELSE states[s]]

\* handleExpandToggle: sectionStates after the forEach.
ExpandAllStates(states, rendered, expanded) ==
    [s \in DOMAIN states |->
        IF s \in ExpandTargets(states, rendered) THEN expanded ELSE states[s]]

HandleExpandToggle ==
    /\ Idle
    /\ IsAttached("expandAllToggle", "handleExpandToggle")
    /\ Room(1)
    /\ allSectionsExpanded' = ~allSectionsExpanded
    /\ expandToggleActive' = ~expandToggleActive
    /\ sectionStates' = ExpandAllStates(sectionStates, domSections,
                                        ~allSectionsExpanded)
    /\ rafQueue' = Append(rafQueue,
           [kind |-> "expandAll",
            updates |-> [s \in ExpandTargets(sectionStates, domSections) |->
                            ~allSectionsExpanded]])
    /\ last' = [op |-> "handleExpandToggle",
                again |-> last.op = "handleExpandToggle"]
    /\ UNCHANGED <<envVars, viewportVars,
                   pc, dataVars, listenerVars, domSections,
                   contentExpanded, arrowTransform, cardVars, cardDom,
                   filterVars, filterDom, frameLeft>>

\* handleFlipToggle: the cards collected when the toggle is clicked.
CardsToUpdate(allCards, active) == {card \in allCards : card # active}

HandleFlipToggle ==
    /\ Idle
    /\ IsAttached("flipAllToggle", "handleFlipToggle")
    /\ Room(1)
    /\ allCardsFlipped' = ~allCardsFlipped
    /\ flipToggleActive' = ~flipToggleActive
    /\ rafQueue' = Append(rafQueue,
           [kind |-> "flipAll",
            cardsToUpdate |-> CardsToUpdate(cards, activeThemeCard)])
    /\ last' = NoLast
    /\ UNCHANGED <<envVars, viewportVars,
                   pc, dataVars, listenerVars, sectionVars, sectionDom,
                   activeThemeCard, cards, flipped, activeMark, filterVars,
                   filterDom, frameLeft>>

\* updateClearButton: the frame callback it requests, if the button exists.
ClearButtonUpdate(filters) ==
    IF "clearFilters" \in page
    THEN <<[kind |-> "clearButton", hasActiveFilters |-> HasActiveFilters(filters)]>>
    ELSE <<>>

PillContainer(type) == IF type = "color" THEN "colorPills" ELSE "designPills"

\* The timers of applyFilters that are set.
PendingTimers == staleTimers + (IF timerPending THEN 1 ELSE 0)

\* A toggleFilter that sets its timer without clearing the one before.
StaleTimersNeverCleared(idAssigned, pending, stale) ==
    stale + (IF pending THEN 1 ELSE 0)

\* toggleFilter: the timers left set that applyFilters.timeoutId no longer
\* names.  clearTimeout cancels the timer the id names before the next is
\* set, if an id was assigned.
StaleTimersAfterToggle(idAssigned, pending, stale) ==
    IF idAssigned THEN stale ELSE stale + (IF pending THEN 1 ELSE 0)

\* toggleFilter, from the click listener of the pill's container.
ToggleFilter(type, value) ==
    /\ Idle
    /\ <<type, value>> \in pills
    /\ IsAttached(PillContainer(type), "toggleFilter")
    /\ Room(1)
    /\ activeFilters' = ToggleFilterSets(activeFilters, type, value)
    /\ pillActive' = [pillActive EXCEPT ![<<type, value>>] =
                         value \notin FilterSetOf(activeFilters, type)]
    /\ rafQueue' = rafQueue \o ClearButtonUpdate(activeFilters')
    /\ staleTimers' = StaleTimersAfterToggle(timeoutId, timerPending, staleTimers)
    /\ timeoutId' = TRUE
    /\ timerPending' = TRUE
    /\ last' = [op |-> "toggleFilter", type |-> type, value |-> value,
                before |-> activeFilters,
                again |-> /\ last.op = "toggleFilter"
                          /\ last.type = type
                          /\ last.value = value]
    /\ UNCHANGED <<envVars, viewportVars,
                   pc, dataVars, listenerVars, sectionVars, sectionDom,
                   cardVars, cardDom, display, pills, clearBtnActive,
                   counterText, frameLeft>>

NoFilters == [colors |-> {}, designs |-> {}]

\* clearAllFilters, from the click listener of the clear button; it calls
\* applyFilters itself and leaves the timer of toggleFilter alone.
ClearAllFilters ==
    /\ Idle
    /\ IsAttached("clearFilters", "clearAllFilters")
    /\ Room(3)
    /\ activeFilters' = NoFilters
    /\ rafQueue' = rafQueue
          \o <<[kind |-> "pills", activePills |-> {p \in pills : pillActive[p]}]>>
          \o ClearButtonUpdate(NoFilters)
          \o <<VisibilityCallback(cards, themeCache, NoFilters,
                  [caller |-> "clearAllFilters",
                   wasEmpty |-> ~HasActiveFilters(activeFilters),
                   settled |-> PendingTimers = 0 /\ rafQueue = <<>>,
                   shown |-> {c \in cards : display[c] # "none"}])>>
    /\ last' = [op |-> "clearAllFilters"]
    /\ UNCHANGED <<envVars, viewportVars,
                   pc, dataVars, listenerVars, sectionVars, sectionDom,
                   cardVars, cardDom, timeoutId, timerPending, staleTimers,
                   filterDom, frameLeft>>

\* A timer toggleFilter set fires, the oldest first: applyFilters runs.
ApplyFiltersTimer ==
    /\ Idle
    /\ PendingTimers > 0
    /\ Room(1)
    /\ IF staleTimers > 0
       THEN staleTimers' = staleTimers - 1 /\ UNCHANGED timerPending
       ELSE timerPending' = FALSE /\ UNCHANGED staleTimers
    /\ rafQueue' = Append(rafQueue,
           VisibilityCallback(cards, themeCache, activeFilters,
                              [caller |-> "timer"]))
    /\ last' = NoLast
    /\ UNCHANGED <<envVars, viewportVars,
                   pc, dataVars, listenerVars, sectionVars, sectionDom,
                   cardVars, cardDom, activeFilters, timeoutId, filterDom,
                   frameLeft>>

----------------------------------------------------------------------------
(* The throttled handlers.  Of the clock only what throttle tests is kept:  *)
(* recent says that Date.now() - lastExecTime is at most the delay.  The    *)
(* timer is set to fire when the delay has passed since the execution that  *)
(* was the last when it was set; overtaken says that the wrapped function   *)
(* has run again since.  A timer is never early and may be late.            *)

ThrottledHandler(name) ==
    IF name = "scroll" THEN "throttledScroll" ELSE "throttledResize"

\* The function throttle wraps, as it finds the window w: isVisible after
\* updateVisibility(window.scrollY > 300); the resize body leaves it.
IsVisibleAfter(name, button, w) ==
    IF name = "scroll" THEN w.scrolledDown ELSE button.isVisible

\* The same: the frame callbacks the wrapped function requests.
ThrottledRequests(name, button, w) ==
    IF name = "scroll"
    THEN (IF w.scrolledDown # button.isVisible
          THEN <<[kind |-> "backToTop", shouldShow |-> w.scrolledDown]>>
          ELSE <<>>)
    ELSE (IF w.wide THEN <<[kind |-> "drawerWide"]>> ELSE <<>>)

\* The function throttle returns, called by a scroll or resize event that
\* leaves the window as w.
Throttled(name, w) ==
    /\ Idle
    /\ IsAttached("window", ThrottledHandler(name))
    /\ Room(1)
    /\ win' = w
    /\ IF ~throttle[name].recent
       THEN /\ backToTop' = [backToTop EXCEPT
                                !.isVisible = IsVisibleAfter(name, backToTop, w)]
            /\ rafQueue' = rafQueue \o ThrottledRequests(name, backToTop, w)
            /\ throttle' = [throttle EXCEPT
                               ![name].recent = TRUE,
                               ![name].overtaken = throttle[name].timer]
       ELSE /\ throttle' = [throttle EXCEPT
                               ![name].timer = TRUE,
                               ![name].overtaken = FALSE]
            /\ UNCHANGED <<backToTop, rafQueue>>
    /\ last' = NoLast
    /\ UNCHANGED <<envVars, drawer, pc, dataVars, listenerVars, sectionVars,
                   sectionDom, cardVars, cardDom, filterVars, filterDom,
                   frameLeft>>

\* The time a timer of a throttle was set for has come.
TimerDue(closure) == closure.timer /\ (closure.overtaken \/ ~closure.recent)

\* The timer of a throttle fires: the wrapped function runs.
ThrottleTimer(name) ==
    /\ Idle
    /\ TimerDue(throttle[name])
    /\ Room(1)
    /\ backToTop' = [backToTop EXCEPT
                        !.isVisible = IsVisibleAfter(name, backToTop, win)]
    /\ rafQueue' = rafQueue \o ThrottledRequests(name, backToTop, win)
    /\ throttle' = [throttle EXCEPT ![name] =
                        [recent |-> TRUE, timer |-> FALSE, overtaken |-> FALSE]]
    /\ last' = [op |-> "throttleTimer", name |-> name]
    /\ UNCHANGED <<envVars, win, drawer, pc, dataVars, listenerVars,
                   sectionVars, sectionDom, cardVars, cardDom, filterVars,
                   filterDom, frameLeft>>

\* More than the delay has passed since the wrapped function ran.
DelayElapsed(name) ==
    /\ Idle
    /\ throttle[name].recent
    /\ throttle' = [throttle EXCEPT ![name].recent = FALSE]
    /\ last' = NoLast
    /\ UNCHANGED <<envVars, win, backToTop, drawer, pc, dataVars, listenerVars,
                   sectionVars, sectionDom, cardVars, cardDom, filterVars,
                   filterDom, rafQueue, frameLeft>>

\* handleToggle, from the click listener of the drawer's button.
HandleToggle ==
    /\ Idle
    /\ IsAttached("filterToggle", "handleToggle")
    /\ Room(1)
    /\ rafQueue' = Append(rafQueue,
           [kind |-> "drawerToggle", isCollapsed |-> drawer.collapsed])
    /\ last' = NoLast
    /\ UNCHANGED <<envVars, viewportVars, pc, dataVars, listenerVars,
                   sectionVars, sectionDom, cardVars, cardDom, filterVars,
                   filterDom, frameLeft>>

----------------------------------------------------------------------------
(* Teardown *)

\* A cleanup that empties the list and detaches nothing.
DetachedNone(listeners, tracked) == listeners

\* cleanup: removeEventListener for every tracked listener.
Detached(listeners, tracked) == listeners \ Range(tracked)

\* cleanup, from beforeunload.  throttledScroll and throttledResize hold
\* functions, no timer ids: the two clearTimeout calls cancel nothing.
Cleanup ==
    /\ Idle
    /\ IsAttached("window", "cleanup")
    /\ attached' = Detached(attached, eventListeners)
    /\ eventListeners' = <<>>
    /\ themeCache' = EmptyMap
    /\ sectionStates' = EmptyMap
    /\ activeFilters' = NoFilters
    /\ last' = [op |-> "cleanup"]
    /\ UNCHANGED <<envVars, viewportVars, pc, themeData, throttledScroll,
                   throttledResize, allSectionsExpanded, sectionDom, cardVars,
                   cardDom, timeoutId, timerPending, staleTimers, filterDom,
                   rafQueue, frameLeft>>

----------------------------------------------------------------------------
(* Frame callbacks: what each changes on the page when the browser runs it *)

Rotation(expanded) == IF expanded THEN "rotate(180deg)" ELSE "rotate(0deg)"

\* A toggleSection whose callback applies the state it found, not the new one.
ContentAfterStateFound(cb, content) ==
    CASE cb.kind = "section" ->
            [content EXCEPT ![cb.section] = cb.isExpanded]
      [] cb.kind = "expandAll" ->
            [s \in DOMAIN content |->
                IF s \in DOMAIN cb.updates THEN cb.updates[s] ELSE content[s]]
      [] OTHER -> content

\* toggleSection and handleExpandToggle: the class 'expanded' of the contents.
ContentAfter(cb, content) ==
    CASE cb.kind = "section" ->
            [content EXCEPT ![cb.section] = ~cb.isExpanded]
      [] cb.kind = "expandAll" ->
            [s \in DOMAIN content |->
                IF s \in DOMAIN cb.updates THEN cb.updates[s] ELSE content[s]]
      [] OTHER -> content

\* The same callbacks, and the one of renderThemeSections: the arrows.
ArrowAfter(cb, arrows, states) ==
    CASE cb.kind = "section" ->
            [arrows EXCEPT ![cb.section] = Rotation(~cb.isExpanded)]
      [] cb.kind = "expandAll" ->
            [s \in DOMAIN arrows |->
                IF s \in DOMAIN cb.updates THEN Rotation(cb.updates[s])
                                           ELSE arrows[s]]
      [] cb.kind = "arrows" ->
            [s \in DOMAIN arrows |-> Rotation(MapGet(states, s))]
      [] OTHER -> arrows

\* A flipCard whose callback turns every card over.
FlippedAfterTurningAll(cb, flips, allFlipped) ==
    CASE cb.kind = "flip" -> [c \in DOMAIN flips |-> ~flips[c]]
      [] cb.kind = "flipAll" ->
            [c \in DOMAIN flips |->
                IF c \in cb.cardsToUpdate THEN allFlipped ELSE flips[c]]
      [] OTHER -> flips

\* flipCard: classList.toggle('flipped'); handleFlipToggle: add or remove
\* by the value allCardsFlipped has when the callback runs.
FlippedAfter(cb, flips, allFlipped) ==
    CASE cb.kind = "flip" -> [flips EXCEPT ![cb.card] = ~flips[cb.card]]
      [] cb.kind = "flipAll" ->
            [c \in DOMAIN flips |->
                IF c \in cb.cardsToUpdate THEN allFlipped ELSE flips[c]]
      [] OTHER -> flips

\* setActiveThemeCard: card.classList.add('active').
ActiveMarkAfter(cb, marks) ==
    IF cb.kind = "active" THEN [marks EXCEPT ![cb.card] = TRUE] ELSE marks

\* clearAllFilters: the pills found active lose the class.
PillActiveAfter(cb, active) ==
    IF cb.kind = "pills"
    THEN [p \in DOMAIN active |-> IF p \in cb.activePills THEN FALSE ELSE active[p]]
    ELSE active

\* updateClearButton: classList.toggle('active', hasActiveFilters).
ClearButtonAfter(cb, active) ==
    IF cb.kind = "clearButton" THEN cb.hasActiveFilters ELSE active

\* An applyFilters with 'block' and 'none' exchanged.
DisplayAfterExchanged(cb, disp) ==
    IF cb.kind = "visibility"
    THEN [c \in DOMAIN disp |->
            IF c \in DOMAIN cb.visibilityUpdates
            THEN (IF cb.visibilityUpdates[c] THEN "none" ELSE "block")
            ELSE disp[c]]
    ELSE disp

\* applyFilters: card.style.display of the cards in the batch.
DisplayAfter(cb, disp) ==
    IF cb.kind = "visibility"
    THEN [c \in DOMAIN disp |->
            IF c \in DOMAIN cb.visibilityUpdates
            THEN (IF cb.visibilityUpdates[c] THEN "block" ELSE "none")
            ELSE disp[c]]
    ELSE disp

\* initializeBackToTop: classList.toggle('visible', shouldShow).
BackToTopAfter(cb, button) ==
    IF cb.kind = "backToTop"
    THEN [button EXCEPT !.visible = cb.shouldShow]
    ELSE button

\* handleToggle and the resize body: the drawer, its button and its label.
DrawerAfter(cb, d) ==
    CASE cb.kind = "drawerToggle" ->
            IF cb.isCollapsed
            THEN [collapsed |-> FALSE, btnActive |-> TRUE, text |-> "Hide Filters"]
            ELSE [collapsed |-> TRUE, btnActive |-> FALSE, text |-> "Show Filters"]
      [] cb.kind = "drawerWide" ->
            [collapsed |-> FALSE, btnActive |-> FALSE, text |-> "Show Filters"]
      [] OTHER -> d

\* The browser runs the next frame callback; a frame that begins takes all
\* the callbacks then pending.
RunFrameCallback ==
    /\ pc \in {"done", "crashed"}
    /\ rafQueue # <<>>
    /\ LET cb == Head(rafQueue)
       IN  /\ rafQueue' = Tail(rafQueue)
           /\ frameLeft' = (IF frameLeft = 0 THEN Len(rafQueue) ELSE frameLeft) - 1
           /\ contentExpanded' = ContentAfter(cb, contentExpanded)
           /\ arrowTransform' = ArrowAfter(cb, arrowTransform, sectionStates)
           /\ flipped' = FlippedAfter(cb, flipped, allCardsFlipped)
           /\ activeMark' = ActiveMarkAfter(cb, activeMark)
           /\ pillActive' = PillActiveAfter(cb, pillActive)
           /\ clearBtnActive' = ClearButtonAfter(cb, clearBtnActive)
           /\ display' = DisplayAfter(cb, display)
           /\ backToTop' = BackToTopAfter(cb, backToTop)
           /\ drawer' = DrawerAfter(cb, drawer)
           /\ counterText' =
                IF cb.kind = "visibility"
                THEN CountText(counterText, themeData, cards, display',
                               activeFilters, page)
                ELSE counterText
    /\ last' = NoLast
    /\ UNCHANGED <<envVars, throttle, win,
                   pc, dataVars, listenerVars, sectionVars, domSections,
                   expandToggleActive, cardVars, cards, flipToggleActive,
                   filterVars, pills>>

----------------------------------------------------------------------------
(* Specifications *)

\* The state when the script has been evaluated and DOMContentLoaded fires,
\* on one of the pages and with a window of one of the widths.
InitPage(sources, bound, pages, widths) ==
    /\ source \in sources
    /\ page \in pages
    /\ cap = bound
    /\ pc = "load"
    /\ themeData = Null
    /\ themeCache = EmptyMap
    /\ sectionStates = EmptyMap
    /\ allCardsFlipped = FALSE
    /\ allSectionsExpanded = FALSE
    /\ activeThemeCard = NoCard
    /\ activeFilters = NoFilters
    /\ eventListeners = <<>>
    /\ attached = {}
    /\ throttledScroll = FALSE
    /\ throttledResize = FALSE
    /\ timeoutId = FALSE
    /\ timerPending = FALSE
    /\ staleTimers = 0
    /\ throttle = [name \in {"scroll", "resize"} |->
                      [recent |-> FALSE, timer |-> FALSE, overtaken |-> FALSE]]
    /\ win \in {[scrolledDown |-> FALSE, wide |-> w] : w \in widths}
    /\ backToTop = [isVisible |-> FALSE, visible |-> FALSE]
    /\ drawer = [collapsed |-> FALSE, btnActive |-> FALSE, text |-> Absent]
    /\ rafQueue = <<>>
    /\ frameLeft = 0
    /\ domSections = {}
    /\ contentExpanded = EmptyMap
    /\ arrowTransform = EmptyMap
    /\ cards = {}
    /\ flipped = EmptyMap
    /\ activeMark = EmptyMap
    /\ display = EmptyMap
    /\ pills = {}
    /\ pillActive = EmptyMap
    /\ clearBtnActive = FALSE
    /\ expandToggleActive = FALSE
    /\ flipToggleActive = FALSE
    /\ counterText = <<>>
    /\ last = NoLast

\* The same on the full page, in a window at least 768 wide.
InitWith(sources, bound) == InitPage(sources, bound, {FullPage}, {TRUE})

Startup ==
    \/ LoadThemeData
    \/ RenderThemeSections
    \/ InitializeToggles
    \/ InitializeFilters
    \/ InitializeMobileDrawer
    \/ InitializeBackToTop
    \/ StartupCardCount
    \/ RegisterCleanup

FilterTypes == {"color", "design"}
FilterValues == {"warm", "cool", "flat", "material"}
CardIds == {"t1", "t2", "t3"}
SectionIds == {"core", "extra", "retro", "modern"}

\* Filters: pills, the clear button, the timer and the frames.
InitFilter == InitWith({ScenarioData, DesignData, FetchError}, MaxPending)
NextFilter ==
    \/ Startup
    \/ \E type \in FilterTypes, value \in FilterValues : ToggleFilter(type, value)
    \/ ClearAllFilters
    \/ ApplyFiltersTimer
    \/ RunFrameCallback
SpecFilter == InitFilter /\ [][NextFilter]_vars

\* The same, with the browser's part: a timer that is set fires, and a
\* frame callback that is pending is run.
SpecFilterFair ==
    /\ SpecFilter
    /\ WF_vars(ApplyFiltersTimer)
    /\ WF_vars(RunFrameCallback)

\* Cards: clicks on cards, the flip-all toggle and the frames.
InitCards == InitWith({SmallData, GalleryData, FetchError}, MaxPending)
NextCards ==
    \/ Startup
    \/ \E card \in CardIds : FlipCard(card)
    \/ HandleFlipToggle
    \/ RunFrameCallback
SpecCards == InitCards /\ [][NextCards]_vars

\* Sections: clicks on section headers, the expand-all toggle and the frames.
InitSections == InitWith({ScenarioData, DesignData, FetchError}, MaxPending)
NextSections ==
    \/ Startup
    \/ \E sectionId \in domSections : ToggleSection(sectionId)
    \/ HandleExpandToggle
    \/ RunFrameCallback
SpecSections == InitSections /\ [][NextSections]_vars

\* All the handlers together.
Init == InitWith({PairData, FetchError}, MaxPendingMixed)
Next ==
    \/ Startup
    \/ \E type \in FilterTypes, value \in FilterValues : ToggleFilter(type, value)
    \/ ClearAllFilters
    \/ ApplyFiltersTimer
    \/ \E card \in CardIds : FlipCard(card)
    \/ HandleFlipToggle
    \/ \E sectionId \in domSections : ToggleSection(sectionId)
    \/ HandleExpandToggle
    \/ RunFrameCallback
Spec == Init /\ [][Next]_vars

ThrottleNames == {"scroll", "resize"}

\* One section, two cards, a pill of each kind.
FacetData ==
    [categories |-> <<
        [id |-> "core", themes |-> <<Theme("t1", "warm", "flat"),
                                     Theme("t2", Absent, Absent)>>] >>]

\* Elements a page may lack.
OptionalElements == {"themeSections", "colorPills", "designPills",
                     "clearFilters", "totalCardCount", "filterToggle",
                     "backToTop"}

\* The full page, the pages that lack one element, and the page that lacks
\* the sections, the pills of one kind, the clear button and the counter.
Pages ==
    {FullPage} \cup {FullPage \ {e} : e \in OptionalElements}
    \cup {FullPage \ {"themeSections", "colorPills", "clearFilters",
                      "totalCardCount"}}

\* Pages with missing elements: the filters, the expand-all toggle, and
\* toggleSection called for any section id.
InitPages == InitPage({FacetData}, MaxPendingMixed, Pages, {TRUE})
NextPages ==
    \/ Startup
    \/ \E type \in FilterTypes, value \in FilterValues : ToggleFilter(type, value)
    \/ ClearAllFilters
    \/ ApplyFiltersTimer
    \/ \E sectionId \in SectionIds : ToggleSection(sectionId)
    \/ HandleExpandToggle
    \/ RunFrameCallback
SpecPages == InitPages /\ [][NextPages]_vars

\* Teardown: beforeunload among the handlers of the filters, the cards and
\* the sections.
InitTeardown == InitWith({PairData}, MaxPendingMixed)
NextTeardown ==
    \/ Startup
    \/ \E type \in FilterTypes, value \in FilterValues : ToggleFilter(type, value)
    \/ ClearAllFilters
    \/ ApplyFiltersTimer
    \/ \E card \in CardIds : FlipCard(card)
    \/ \E sectionId \in domSections : ToggleSection(sectionId)
    \/ Cleanup
    \/ RunFrameCallback
SpecTeardown == InitTeardown /\ [][NextTeardown]_vars

\* The tracked listeners: the clicks on the pills, the clear button and the
\* three toggles, and beforeunload.
InitListeners == InitWith({PairData, FetchError}, MaxPendingMixed)
NextListeners ==
    \/ Startup
    \/ \E type \in FilterTypes, value \in FilterValues : ToggleFilter(type, value)
    \/ ClearAllFilters
    \/ ApplyFiltersTimer
    \/ HandleExpandToggle
    \/ HandleFlipToggle
    \/ HandleToggle
    \/ Cleanup
    \/ RunFrameCallback
SpecListeners == InitListeners /\ [][NextListeners]_vars

\* The viewport: scroll and resize events, the drawer's button, the timers
\* and beforeunload.
InitViewport == InitPage({PairData}, MaxPendingMixed, {FullPage}, BOOLEAN)
NextViewport ==
    \/ Startup
    \/ \E y \in BOOLEAN : Throttled("scroll", [win EXCEPT !.scrolledDown = y])
    \/ \E w \in BOOLEAN : Throttled("resize", [win EXCEPT !.wide = w])
    \/ \E name \in ThrottleNames : ThrottleTimer(name)
    \/ \E name \in ThrottleNames : DelayElapsed(name)
    \/ HandleToggle
    \/ Cleanup
    \/ RunFrameCallback
SpecViewport == InitViewport /\ [][NextViewport]_vars

----------------------------------------------------------------------------
(* Properties *)

\* The steps of a behaviour, told apart by what they change.
FrameStep == Len(rafQueue') < Len(rafQueue)
RequestsVisibility ==
    /\ Len(rafQueue') > Len(rafQueue)
    /\ rafQueue'[Len(rafQueue')].kind = "visibility"
Shown(disp) == {c \in DOMAIN disp : disp[c] # "none"}
Settled == pc = "done" /\ frameLeft = 0 /\ PendingTimers = 0 /\ rafQueue = <<>>

\* The filter policy as the specification words it.
Matches(theme, filters) ==
    /\ (filters.colors = {} \/ theme.colorFamily \in filters.colors)
    /\ (filters.designs = {} \/ theme.designSystem \in filters.designs)

\* C1: whenever applyFilters runs, the visibility it computes for the card
\* of a theme T that is rendered and in the lookup index is true iff (the
\* colour set is empty or holds T.colorFamily) and (the design set is empty
\* or holds T.designSystem).
C1_VisibilityIsFilterPolicy ==
    [][RequestsVisibility =>
        LET batch == rafQueue'[Len(rafQueue')].visibilityUpdates
        IN  \A c \in cards :
                c \in DOMAIN themeCache =>
                    /\ c \in DOMAIN batch
                    /\ batch[c] <=> Matches(themeCache[c], activeFilters')]_vars

\* C1, its case: a batch computed with a value active in both facets, that
\* shows one card and hides another.
C1_Witness ==
    /\ activeFilters.colors # {}
    /\ activeFilters.designs # {}
    /\ rafQueue # <<>>
    /\ LET cb == rafQueue[Len(rafQueue)]
       IN  /\ cb.kind = "visibility"
           /\ cb.origin.caller = "timer"
           /\ \E c, d \in cards :
                 cb.visibilityUpdates[c] /\ ~cb.visibilityUpdates[d]

\* C2, the parts that need no amendment: clearAllFilters empties both sets
\* in its one step, and when the frame callback of its applyFilters call has
\* run every card is visible.
C2_ClearStep ==
    /\ last'.op = "clearAllFilters" =>
          activeFilters' = NoFilters /\ display' = display
    /\ (FrameStep /\ Head(rafQueue).kind = "visibility"
          /\ Head(rafQueue).origin.caller = "clearAllFilters") =>
          Shown(display') = cards

\* C2 as claimed: in addition, a clearAllFilters that finds both sets empty
\* leaves every card's visibility as it was when it was called.
C2_ClearLeavesVisibilityWhenEmpty ==
    [][/\ C2_ClearStep
       /\ (FrameStep /\ Head(rafQueue).kind = "visibility"
             /\ Head(rafQueue).origin.caller = "clearAllFilters"
             /\ Head(rafQueue).origin.wasEmpty) =>
             Shown(display') = Head(rafQueue).origin.shown]_vars

\* C2 as amended: that holds of a clearAllFilters that finds both sets empty
\* and neither the timer nor a frame callback pending.
C2_ClearLeavesVisibilityWhenSettled ==
    [][/\ C2_ClearStep
       /\ (FrameStep /\ Head(rafQueue).kind = "visibility"
             /\ Head(rafQueue).origin.caller = "clearAllFilters"
             /\ Head(rafQueue).origin.wasEmpty
             /\ Head(rafQueue).origin.settled) =>
             Shown(display') = Head(rafQueue).origin.shown]_vars

\* C2, its case: the callback of a clearAllFilters that found both sets
\* empty and nothing pending is the next to run, after a filter has hidden
\* a card and has been removed again.
C2_Witness ==
    /\ rafQueue # <<>>
    /\ Head(rafQueue).kind = "visibility"
    /\ Head(rafQueue).origin.caller = "clearAllFilters"
    /\ Head(rafQueue).origin.wasEmpty
    /\ Head(rafQueue).origin.settled
    /\ \E c \in cards : display[c] = "block"

\* C3: toggleFilter called twice in a row with the same facet and value
\* returns both sets to their contents before the first call; one call
\* changes the membership of that value in that facet and nothing else.
C3_ToggleTwiceRestores ==
    [][/\ (last'.op = "toggleFilter" /\ last'.again) =>
             activeFilters' = last.before
       /\ last'.op = "toggleFilter" =>
             LET type == last'.type
                 other == IF type = "color" THEN "design" ELSE "color"
                 old == FilterSetOf(activeFilters, type)
                 new == FilterSetOf(activeFilters', type)
             IN  /\ (old \ new) \cup (new \ old) = {last'.value}
                 /\ FilterSetOf(activeFilters', other)
                      = FilterSetOf(activeFilters, other)]_vars

\* C3, its case: the second of two calls in a row has run, on sets that
\* held another value of the facet and a value of the other facet.
C3_Witness ==
    /\ last.op = "toggleFilter"
    /\ last.again
    /\ last.type = "color"
    /\ Cardinality(activeFilters.colors) = 2
    /\ activeFilters.designs # {}

\* C4: on a loaded dataset, after any sequence of filter toggles, clears,
\* card flips and section toggles, the pair updateCardCount works with has
\* 0 <= visible <= total, and total is the number of themes of all the
\* categories whatever the filters are; so are the numbers the counter shows.
C4_CountWithinTotal ==
    themeData # Null =>
        LET visible == VisibleCards(cards, display)
            total == TotalCards(themeData)
            themes == Cardinality(AllThemes(themeData))
        IN  /\ 0 <= visible /\ visible <= total
            /\ total = themes
            /\ Len(counterText) = 1 => counterText[1] = themes
            /\ Len(counterText) = 2 =>
                  /\ 0 <= counterText[1] /\ counterText[1] <= counterText[2]
                  /\ counterText[2] = themes

\* C4, its case: a filter hides a card and the counter says so, while a card
\* is flipped and the section has been collapsed.
C4_Witness ==
    /\ Len(counterText) = 2
    /\ counterText[1] < counterText[2]
    /\ VisibleCards(cards, display) < TotalCards(themeData)
    /\ \E c \in cards : flipped[c]
    /\ \E s \in DOMAIN sectionStates : ~sectionStates[s] /\ ~contentExpanded[s]

\* C5: once the startup has ended on a loaded dataset, whenever neither the
\* timer nor a frame callback is pending the counter shows the bare total if
\* both sets are empty, and "visible / total" otherwise, visible being the
\* number of themes that match the sets; in the scenario "3" without
\* filters and "2 / 3" with "warm".
C5_CounterWhenSettled ==
    Settled =>
        LET total == Cardinality(AllThemes(themeData))
            matching == Cardinality({t \in AllThemes(themeData) :
                                        Matches(t, activeFilters)})
        IN  /\ counterText = IF activeFilters = NoFilters
                             THEN <<total>> ELSE <<matching, total>>
            /\ (source = ScenarioData /\ activeFilters = NoFilters) =>
                  counterText = <<3>>
            /\ (source = ScenarioData
                  /\ activeFilters = [colors |-> {"warm"}, designs |-> {}]) =>
                  counterText = <<2, 3>>

\* C5, its case: the scenario with "warm" active and nothing pending.
C5_Witness ==
    /\ Settled
    /\ source = ScenarioData
    /\ activeFilters = [colors |-> {"warm"}, designs |-> {}]
    /\ counterText = <<2, 3>>

\* C6: under every interleaving of card clicks, flip-all clicks and frame
\* callbacks, a flip-all batch sets the flipped state of every card that is
\* not the focused card to allCardsFlipped and does not change the flipped
\* state of the card that is focused when the batch is applied.
C6_FlipAllSparesFocusedCard ==
    [][(FrameStep /\ Head(rafQueue).kind = "flipAll") =>
          /\ \A c \in cards :
                c # activeThemeCard => flipped'[c] = allCardsFlipped
          /\ activeThemeCard \in cards =>
                flipped'[activeThemeCard] = flipped[activeThemeCard]]_vars

\* C7: in every state at most one card carries the mark 'active', and when
\* no frame callback is pending the marked card is the one activeThemeCard
\* holds.
C7_OneActiveCard ==
    LET marked == {c \in cards : activeMark[c]}
    IN  /\ Cardinality(marked) <= 1
        /\ rafQueue = <<>> =>
              marked = (IF activeThemeCard = NoCard THEN {} ELSE {activeThemeCard})

\* Two invocations of the expand-all toggle in a row: the step of the second.
SecondExpandAll == last'.op = "handleExpandToggle" /\ last'.again

\* C8 as claimed: the second of two expand-all invocations in a row leaves
\* the expansion map as the first left it, and each inverts the flag.
C8_ExpandAllTwiceKeepsMap ==
    [][/\ SecondExpandAll => sectionStates' = sectionStates
       /\ last'.op = "handleExpandToggle" =>
             allSectionsExpanded' = ~allSectionsExpanded]_vars

\* C8 as amended: the second of two expand-all invocations in a row sets
\* every section to the opposite of what the first set it to, which is the
\* value the flag has after the second, and each invocation inverts the flag.
C8_ExpandAllTwiceInvertsMap ==
    [][/\ SecondExpandAll =>
             \A s \in DOMAIN sectionStates' :
                /\ s \in DOMAIN sectionStates
                /\ sectionStates'[s] = ~sectionStates[s]
                /\ sectionStates'[s] = allSectionsExpanded'
       /\ last'.op = "handleExpandToggle" =>
             allSectionsExpanded' = ~allSectionsExpanded]_vars

\* C8, its case: the second of two invocations in a row has run on a
\* dataset with two sections.
C8_Witness ==
    /\ last.op = "handleExpandToggle"
    /\ last.again
    /\ Cardinality(DOMAIN sectionStates) = 2
    /\ ~allSectionsExpanded

\* C9: one expand-all invocation sets every section of the dataset to the
\* negation of the value allSectionsExpanded had before it, whatever the
\* section toggles before it left.
C9_ExpandAllSetsEverySection ==
    [][last'.op = "handleExpandToggle" =>
          /\ themeData # Null => CategoryIds(themeData) = DOMAIN sectionStates'
          /\ \A s \in DOMAIN sectionStates' :
                sectionStates'[s] = ~allSectionsExpanded]_vars

\* C9, its case: expand-all has run right after a section toggle that left
\* the sections in different states, both still waiting for their frame.
C9_Witness ==
    /\ last.op = "handleExpandToggle"
    /\ ~last.again
    /\ Len(rafQueue) >= 2
    /\ rafQueue[Len(rafQueue) - 1].kind = "section"
    /\ rafQueue[Len(rafQueue)].kind = "expandAll"
    /\ Cardinality(DOMAIN rafQueue[Len(rafQueue)].updates) = 2
    /\ \E s, t \in DOMAIN contentExpanded : contentExpanded[s] # contentExpanded[t]

\* C10: when the load fails the dataset store stays empty, no section is
\* rendered, and the startup sequence runs to its end: no exception leaves
\* the startup handler.
C10_StartupSurvivesLoadFailure ==
    (source = FetchError /\ pc # "load") =>
        /\ themeData = Null
        /\ domSections = {}
        /\ pc # "crashed"

\* C11: after a load failure the startup sequence writes a zero count to
\* the card counter: once the startup has ended the counter reads "0".
C11_CounterZeroAfterLoadFailure ==
    (source = FetchError /\ pc \in {"done", "crashed"}) => counterText = <<0>>

\* The cards a visibility callback has no entry for: those whose theme the
\* lookup index lacked when applyFilters ran.
SkippedCards(cb) == cards \ DOMAIN cb.visibilityUpdates

\* C12: a card whose theme the lookup index lacks when applyFilters runs is
\* hidden once the pass has been applied, whatever the filter sets hold.
C12_CardWithoutIndexEntryIsHidden ==
    [][(FrameStep /\ Head(rafQueue).kind = "visibility") =>
          \A c \in SkippedCards(Head(rafQueue)) : display'[c] = "none"]_vars

\* cleanup has run: the startup had registered listeners, none is tracked now.
TornDown == pc = "done" /\ eventListeners = <<>>

\* C13: once cleanup has run no deferred work runs: no timer of applyFilters
\* and no timer of a throttle fires, and the browser runs no frame callback.
C13_NoDeferredWorkAfterCleanup ==
    [][TornDown =>
          /\ PendingTimers' >= PendingTimers
          /\ last'.op # "throttleTimer"
          /\ ~FrameStep]_vars

\* C14: toggleFilter calls that follow one another before the timer fires
\* leave one timer set, never more; when it fires applyFilters runs once, no
\* timer stays set, and the batch is computed from the filter sets as the
\* last call left them.
C14_BurstRunsApplyFiltersOnce ==
    [][/\ PendingTimers <= 1
       /\ PendingTimers' <= 1
       /\ last'.op = "toggleFilter" => PendingTimers' = 1
       /\ PendingTimers' < PendingTimers =>
             /\ PendingTimers' = 0
             /\ RequestsVisibility
             /\ LET batch == rafQueue'[Len(rafQueue')].visibilityUpdates
                    sets == IF last.op = "toggleFilter"
                            THEN ToggleFilterSets(last.before, last.type, last.value)
                            ELSE activeFilters
                IN  /\ DOMAIN batch = cards
                    /\ \A c \in cards :
                          batch[c] = Matches(themeCache[c], sets)]_vars

\* C14, its case: two pills were toggled before the timer fired; it has
\* fired, and the one batch of applyFilters waits for its frame.
C14_Witness ==
    /\ PendingTimers = 0
    /\ Cardinality(activeFilters.colors) = 2
    /\ \A c \in cards : display[c] = ""
    /\ Cardinality({i \in DOMAIN rafQueue : rafQueue[i].kind = "visibility"}) = 1
    /\ rafQueue[Len(rafQueue)].kind = "visibility"
    /\ rafQueue[Len(rafQueue)].origin.caller = "timer"

\* A step of toggleSection or of handleExpandToggle, or of a frame callback
\* either has requested.
SectionStep ==
    \/ sectionStates' # sectionStates
    \/ last'.op = "handleExpandToggle"
    \/ FrameStep /\ Head(rafQueue).kind \in {"section", "expandAll"}

\* C15: toggleSection and the expand-all toggle change no card's
\* visibility and neither filter set; applyFilters gives every card the
\* visibility the filter policy gives it, in an expanded section or a
\* collapsed one, and the counter counts the matching cards of both.
C15_VisibilityIndependentOfExpansion ==
    /\ [][SectionStep =>
             /\ display' = display
             /\ activeFilters' = activeFilters
             /\ counterText' = counterText]_vars
    /\ [][RequestsVisibility =>
             LET batch == rafQueue'[Len(rafQueue')].visibilityUpdates
             IN  \A c \in cards :
                    batch[c] = Matches(themeCache[c], activeFilters')]_vars
    /\ [](Settled /\ HasActiveFilters(activeFilters) =>
             counterText[1] = Cardinality({c \in cards :
                                 Matches(themeCache[c], activeFilters)}))

\* C15, its case: a filter is applied while the section is collapsed, and
\* the matching card in it is shown and counted.
C15_Witness ==
    /\ Settled
    /\ ~contentExpanded["core"]
    /\ ~MapGet(sectionStates, "core")
    /\ activeFilters.colors = {"warm"}
    /\ display["t1"] = "block"
    /\ counterText = <<1, 2>>

\* The step of flipCard itself: its two frame callbacks join the list.
FlipCardStep ==
    /\ Len(rafQueue') = Len(rafQueue) + 2
    /\ rafQueue'[Len(rafQueue')].kind = "flip"

\* A step of applyFilters or of clearAllFilters, or of a frame callback
\* either has requested.
FilterPassStep ==
    \/ PendingTimers' < PendingTimers
    \/ last'.op = "clearAllFilters"
    \/ FrameStep /\ Head(rafQueue).kind \in {"visibility", "pills", "clearButton"}

\* C16: flipCard and its frame callbacks change neither filter set, no
\* card's visibility and no section's state; its flip callback inverts the
\* flipped state of the clicked card and of no other; applyFilters and
\* clearAllFilters leave every card's flipped state as it is.
C16_FlipCardChangesOneCard ==
    [][/\ FlipCardStep =>
            /\ flipped' = flipped
            /\ UNCHANGED <<activeFilters, display, sectionStates>>
       /\ (FrameStep /\ Head(rafQueue).kind = "flip") =>
            /\ flipped' = [flipped EXCEPT ![Head(rafQueue).card] =
                              ~flipped[Head(rafQueue).card]]
            /\ UNCHANGED <<activeFilters, display, sectionStates>>
       /\ (FrameStep /\ Head(rafQueue).kind = "active") =>
            UNCHANGED <<flipped, activeFilters, display, sectionStates>>
       /\ FilterPassStep => flipped' = flipped]_vars

\* C16, its case: one card was clicked and is flipped, the other is not,
\* and a filter has hidden the other since.
C16_Witness ==
    /\ Settled
    /\ activeThemeCard = "t1"
    /\ flipped["t1"]
    /\ ~flipped["t2"]
    /\ ~allCardsFlipped
    /\ activeFilters.colors = {"warm"}
    /\ display["t2"] = "none"

\* Identifiers to look up: those of the cards and one no dataset uses.
LookupIds == CardIds \cup {"t0"}

\* C17: after a startup on loaded data the lookup index has an entry for
\* the id of every theme of every category and for no other id,
\* findThemeById returns the theme for each of them and null for any other
\* id, and no later step changes the index.
C17_IndexHoldsEveryTheme ==
    /\ [](pc = "done" =>
             /\ DOMAIN themeCache = {t.id : t \in AllThemes(themeData)}
             /\ \A t \in AllThemes(themeData) :
                   FindThemeById(themeCache, t.id) = t
             /\ \A id \in LookupIds :
                   id \notin {t.id : t \in AllThemes(themeData)} =>
                       FindThemeById(themeCache, id) = Null)
    /\ [][pc = "done" => themeCache' = themeCache]_vars

\* C17, its case: the dataset has two categories, filters have been toggled
\* and applied, and the theme of the second category is found.
C17_Witness ==
    /\ Settled
    /\ source = ScenarioData
    /\ HasActiveFilters(activeFilters)
    /\ display["t2"] = "none"
    /\ FindThemeById(themeCache, "t3") = Theme("t3", "warm", Absent)
    /\ FindThemeById(themeCache, "t0") = Null

\* The frame callbacks of a kind that are pending.
PendingOfKind(kind) == {i \in DOMAIN rafQueue : rafQueue[i].kind = kind}

\* C18: on a page that lacks a target nothing faults, and the operation
\* that addresses the target changes nothing: a section without content and
\* arrow keeps its expansion state under toggleSection and the expand-all
\* toggle; without the clear button its state is not written and no
\* callback is requested for it; without the counter no count is written;
\* without a pill container no pill and no listener is made for it; without
\* the section container nothing is rendered.
C18_MissingTargetIsNoOp ==
    /\ [](/\ pc # "crashed"
          /\ "clearFilters" \notin page =>
                ~clearBtnActive /\ PendingOfKind("clearButton") = {}
          /\ "totalCardCount" \notin page => counterText = <<>>
          /\ \A p \in pills : PillContainer(p[1]) \in page
          /\ \A l \in attached : l.element \in page \cup {"window"}
          /\ "themeSections" \notin page =>
                /\ domSections = {} /\ cards = {}
                /\ PendingOfKind("arrows") = {})
    /\ [][pc = "done" =>
             /\ \A s \in DOMAIN sectionStates \ domSections :
                   /\ s \in DOMAIN sectionStates'
                   /\ sectionStates'[s] = sectionStates[s]
             /\ last'.op = "toggleSection" =>
                   UNCHANGED <<sectionStates, sectionDom, rafQueue>>]_vars

\* C18, its case: the page has no section container; toggleSection has
\* been called and the expand-all toggle clicked, and the map is as loaded.
C18_Witness ==
    /\ pc = "done"
    /\ "themeSections" \notin page
    /\ "clearFilters" \notin page
    /\ last.op = "toggleSection"
    /\ allSectionsExpanded
    /\ HasActiveFilters(activeFilters)
    /\ sectionStates = [id \in CategoryIds(themeData) |-> id = "core"]

\* C19: when cleanup has run the expansion map is empty, both filter sets
\* are empty and no card is the focused card.
C19_CleanupClearsSelection ==
    last.op = "cleanup" =>
        /\ sectionStates = EmptyMap
        /\ activeFilters = NoFilters
        /\ activeThemeCard = NoCard

\* Nothing is pending: no timer of applyFilters, no frame callback.
Quiet == frameLeft = 0 /\ PendingTimers = 0 /\ rafQueue = <<>>

\* Every card is shown exactly if the filter policy shows it.
VisibilityConsistent ==
    \A c \in cards : (display[c] # "none") = Matches(themeCache[c], activeFilters)

\* A click on a pill or on the clear button.
FilterClick == last'.op \in {"toggleFilter", "clearAllFilters"}

\* toggleFilter or clearAllFilters has just changed the filter sets.
FilterChanged == last.op \in {"toggleFilter", "clearAllFilters"}

\* C20 as stated: whenever neither a timer nor a frame callback is pending,
\* every card's displayed visibility is the filter policy on the filter
\* sets as they are; and every filter change is followed by such a state.
C20_EveryChangeSettles ==
    /\ [](Quiet => VisibilityConsistent)
    /\ FilterChanged ~> (Quiet /\ VisibilityConsistent)

\* C20, amended: the same, the second part for the behaviours in which the
\* clicks on the pills and the clear button come to an end.
C20_NoStaleVisibility ==
    /\ [](Quiet => VisibilityConsistent)
    /\ <>[][~FilterClick]_vars =>
          (FilterChanged ~> (Quiet /\ VisibilityConsistent))

\* C20, its case: a pill was toggled after clearAllFilters and before the
\* frame of its callbacks (the pill has lost its mark); the timer has fired
\* since, every batch is applied, and one card is hidden.
C20_Witness ==
    /\ Quiet
    /\ pc = "done"
    /\ timeoutId
    /\ HasActiveFilters(activeFilters)
    /\ pillActive # [p \in pills |-> p[2] \in FilterSetOf(activeFilters, p[1])]
    /\ \E c \in cards : display[c] = "none"
    /\ \E c \in cards : display[c] = "block"

\* C21: whenever no frame callback is pending, a pill carries the class
\* 'active' exactly if its value is in the filter set of its facet.
C21_PillMarksFollowFilterSets ==
    (pc = "done" /\ frameLeft = 0 /\ rafQueue = <<>>) =>
        \A p \in pills :
            pillActive[p] = (p[2] \in FilterSetOf(activeFilters, p[1]))

\* The step of toggleSection that finds its section: its callback joins
\* the list.
ToggleSectionStep ==
    /\ Len(rafQueue') = Len(rafQueue) + 1
    /\ rafQueue'[Len(rafQueue')].kind = "section"

\* C22: whenever no frame callback is pending, the content of every section
\* has the class 'expanded' exactly if the expansion map holds true for the
\* section; and toggleSection inverts the map entry of its section and
\* leaves every other entry as it is.
C22_ContentFollowsExpansionMap ==
    /\ []((pc = "done" /\ frameLeft = 0 /\ rafQueue = <<>>) =>
             \A s \in domSections :
                 contentExpanded[s] = MapGet(sectionStates, s))
    /\ [][ToggleSectionStep =>
             LET s == rafQueue'[Len(rafQueue')].section
             IN  sectionStates' =
                    MapSet(sectionStates, s, ~MapGet(sectionStates, s))]_vars

\* C22, its case: the expand-all toggle was clicked and a section header
\* after it; every callback has run, and the sections differ.
C22_Witness ==
    /\ pc = "done" /\ frameLeft = 0 /\ rafQueue = <<>>
    /\ allSectionsExpanded
    /\ "extra" \in domSections
    /\ ~MapGet(sectionStates, "core")
    /\ ~contentExpanded["core"]
    /\ MapGet(sectionStates, "extra")
    /\ contentExpanded["extra"]

\* The function a throttle wraps runs in this step: by a call that finds
\* the delay passed, or by the timer.
Executes(name) ==
    \/ ~throttle[name].recent /\ throttle'[name].recent
    \/ throttle[name].timer /\ ~throttle'[name].timer

\* C23: the function a throttle wraps never runs while the delay since its
\* last execution has not passed.
C23_ExecutionsAtLeastDelayApart ==
    [][\A name \in ThrottleNames :
          Executes(name) => ~throttle[name].recent]_vars

\* The listeners the startup registers on the full page, in its order.
RegisteredListeners ==
    <<Listener("expandAllToggle", "click", "handleExpandToggle"),
      Listener("flipAllToggle", "click", "handleFlipToggle"),
      Listener("colorPills", "click", "toggleFilter"),
      Listener("designPills", "click", "toggleFilter"),
      Listener("clearFilters", "click", "clearAllFilters"),
      Listener("filterToggle", "click", "handleToggle"),
      Listener("window", "resize", "throttledResize"),
      Listener("window", "scroll", "throttledScroll"),
      Listener("backToTop", "click", "scrollTo")>>

BeforeUnload == Listener("window", "beforeunload", "cleanup")

\* C24: every tracked listener is attached, and every attached listener
\* but that of beforeunload is tracked; after the startup the list holds
\* the registered listeners until cleanup runs, which detaches them all and
\* empties the list; from then on no click handler runs: every step is the
\* timer, a frame callback or cleanup again, and the filter sets, the two
\* flags, the expansion map and the classes of the toggles stay as they are.
C24_TrackedListenersUntilCleanup ==
    /\ [](/\ Range(eventListeners) \subseteq attached
          /\ attached \ Range(eventListeners) \subseteq {BeforeUnload}
          /\ pc = "done" =>
                \/ eventListeners = RegisteredListeners
                \/ eventListeners = <<>> /\ attached = {BeforeUnload})
    /\ [][/\ (pc = "done" /\ last'.op # "cleanup") =>
                UNCHANGED <<eventListeners, attached>>
          /\ last'.op = "cleanup" =>
                eventListeners' = <<>> /\ attached' = {BeforeUnload}
          /\ TornDown =>
                /\ \/ FrameStep
                   \/ PendingTimers' < PendingTimers
                   \/ last'.op = "cleanup"
                /\ UNCHANGED <<activeFilters, allCardsFlipped,
                               allSectionsExpanded, sectionStates,
                               expandToggleActive, flipToggleActive>>]_vars

\* C24, its case: the toggles and a pill were clicked, cleanup has run and
\* every callback after it; the marks the clicks left are still there.
C24_Witness ==
    /\ TornDown
    /\ last.op # "cleanup"
    /\ rafQueue = <<>>
    /\ attached = {BeforeUnload}
    /\ allCardsFlipped /\ flipToggleActive
    /\ allSectionsExpanded /\ expandToggleActive
    /\ \E p \in pills : pillActive[p]
    /\ drawer.btnActive

====
